---- MODULE Spec2Model ----
(***************************************************************************)
(* Model layer of the learned index: the Piecewise Corrector (NN), the     *)
(* Segmentation Trainer and Prefix Bucket Dispatcher (LearnedFIB), and the *)
(* radix family (RadixModel, RadixTable).                                  *)
(*                                                                         *)
(* f64 values are modelled as exact rationals [n, d] in lowest terms: the  *)
(* model has no rounding, so every equality it refutes is refuted by a     *)
(* difference far larger than rounding.  u64 keys of the radix family are  *)
(* modelled at their full width as the set of their one-bits (0..63).      *)
(***************************************************************************)
EXTENDS Integers, Sequences, FiniteSets, TLC

VARIABLES
    \* ---- Piecewise Corrector (neural_network.rs) ----
    nn,             \* the NN under test: weights1, weights2, biases1, bias2
    nn_state,       \* "new" | "trained" | "panic"
    train_set,      \* the breakpoints train was given
    inf_in,         \* last inference input (a key), or -1
    inf_out,        \* last inference result
    file,           \* the model file: [exists, records]
    save_result,    \* "none" | "ok" | "err"
    loaded,         \* result of NN::load: None | Panic | an NN
    \* ---- Segmentation Trainer (LearnedFIB::train_subset) ----
    seg_data, seg_from, seg_to, seg_threshold, seg_result,
    \* ---- Prefix Bucket Dispatcher (LearnedFIB) ----
    data, prefix, threshold, neural_networks, pc, idx,
    prev_prefix, from, to, max_error, calls, fib_out,
    \* ---- Radix family (radix.rs) ----
    rdata, tbits, overflow_checks, rmodel, rtable, rpred

nnVars == <<nn, nn_state, train_set, inf_in, inf_out, file, save_result, loaded>>
segVars == <<seg_data, seg_from, seg_to, seg_threshold, seg_result>>
fibVars == <<data, prefix, threshold, neural_networks, pc, idx,
             prev_prefix, from, to, max_error, calls, fib_out>>
radixVars == <<rdata, tbits, overflow_checks, rmodel, rtable, rpred>>
vars == <<nnVars, segVars, fibVars, radixVars>>

\* ------------------------------------------------------------------ bounds
MaxKey == 3
MaxPos == 3
MaxBreakpoints == 3
MaxRecords == 4
MaxLen == 4
MaxThreshold == 1
MaxPrefix == 2
MaxRadixLen == 2
MaxRadixPos == 5
MaxTableBits == 2

\* ------------------------------------------------------- outcomes of a call
None == [tag |-> "none"]
Panic == [tag |-> "panic"]

\* ----------------------------------------------------- f64 as exact rationals
RECURSIVE Gcd(_, _)
Gcd(a, b) == IF b = 0 THEN a ELSE Gcd(b, a % b)

AbsInt(a) == IF a < 0 THEN -a ELSE a

Norm(n, d) ==
    LET g == Gcd(AbsInt(n), AbsInt(d))
        s == IF d < 0 THEN -1 ELSE 1
    IN [n |-> s * (n \div g), d |-> s * (d \div g)]

F(i) == [n |-> i, d |-> 1]
FAdd(a, b) == Norm(a.n * b.d + b.n * a.d, a.d * b.d)
FSub(a, b) == Norm(a.n * b.d - b.n * a.d, a.d * b.d)
FMul(a, b) == Norm(a.n * b.n, a.d * b.d)
FDiv(a, b) == Norm(a.n * b.d, a.d * b.n)
FNeg(a) == [n |-> -a.n, d |-> a.d]
FLt(a, b) == a.n * b.d < b.n * a.d
FAbs(a) == [n |-> AbsInt(a.n), d |-> a.d]
\* `x as u64` of a non-negative f64: truncation toward zero.
FToU64(a) == a.n \div a.d
FFloor(a) == a.n \div a.d

\* --------------------------------------------------------------------- NN
relu(inp) == IF FLt(inp, F(0)) THEN F(0) ELSE inp

NNnew == [weights1 |-> <<>>, weights2 |-> <<>>, biases1 |-> <<>>, bias2 |-> F(0)]

\* The body of train's loop, for idx = k (0-based): one hidden unit per step.
RECURSIVE TrainLoop(_, _, _, _, _)
TrainLoop(self, dataset, k, stop, prev_slope) ==
    IF k >= stop THEN self
    ELSE LET x1 == F(dataset[k + 1][1])
             y1 == F(dataset[k + 1][2])
             x2 == F(dataset[k + 2][1])
             y2 == F(dataset[k + 2][2])
             cur_slope == FDiv(FSub(y2, y1), FSub(x2, x1))
             w1 == FAbs(FSub(cur_slope, prev_slope))
             next == [self EXCEPT
                        !.weights1 = Append(@, w1),
                        !.biases1 = Append(@, FNeg(FMul(x1, w1))),
                        !.weights2 = Append(@, IF FLt(prev_slope, cur_slope)
                                               THEN F(1) ELSE FNeg(F(1)))]
         IN TrainLoop(next, dataset, k + 1, stop, cur_slope)

\* The range of train's loop is start_idx..(end_idx - 1), end_idx = len - 1.
TrainStop(len) == (len - 1) - 1

\* NN::train.  With fewer than 2 points `dataset.len() - 1` or `end_idx - 1`
\* underflows usize: a panic with overflow checks, and without them a range up
\* to usize::MAX whose first get() is out of bounds; a panic in either build.
train(self, dataset) ==
    IF Len(dataset) < 2 THEN Panic
    ELSE TrainLoop([self EXCEPT !.bias2 = F(dataset[1][2])],
                   dataset, 0, TrainStop(Len(dataset)), F(0))

Min(a, b) == IF a < b THEN a ELSE b

RECURSIVE SumSeq(_)
SumSeq(s) == IF s = <<>> THEN F(0) ELSE FAdd(s[1], SumSeq(Tail(s)))

\* NN::inference: zip stops at the shorter sequence.
inference(self, input) ==
    LET n1 == Min(Len(self.weights1), Len(self.biases1))
        layer1_result == [i \in 1..n1 |->
            relu(FAdd(FMul(input, self.weights1[i]), self.biases1[i]))]
        n2 == Min(n1, Len(self.weights2))
        prods == [i \in 1..n2 |-> FMul(layer1_result[i], self.weights2[i])]
    IN FAdd(SumSeq(prods), self.bias2)

\* File::open(path): read-only handle; fails when the file does not exist.
FileOpen(f) == [ok |-> f.exists, writable |-> FALSE]
\* File::create(path): creates or truncates.
FileCreate(f) == [exists |-> TRUE, records |-> <<>>]

\* write_f64 of each value through a handle: an error on a read-only handle.
WriteAll(handle, f, values) ==
    IF values = <<>> THEN [ok |-> TRUE, file |-> f]
    ELSE IF handle.writable
         THEN [ok |-> TRUE, file |-> [f EXCEPT !.records = @ \o values]]
         ELSE [ok |-> FALSE, file |-> f]

\* NN::save: Ok or Err, and the file afterwards.
save(self, f) ==
    LET h == FileOpen(f) IN
    IF ~h.ok THEN [ok |-> FALSE, file |-> f]
    ELSE WriteAll(h, f, self.weights1 \o self.weights2 \o self.biases1
                        \o <<self.bias2>>)

\* The Vec that load hands to read_f64_into: Vec::new().
LoadBuffer == <<>>

\* read_f64_into(dst): fills dst, i.e. reads exactly dst.len() values.
ReadF64Into(f, dst) == SubSeq(f.records, 1, Len(dst))

\* The match of load on (contents_len - 1) % 3.  contents_len = 0 underflows:
\* a panic with overflow checks; without them usize::MAX, which is 0 mod 3,
\* and slice_len = usize::MAX / 3 is out of range of the empty Vec: a panic.
LoadMatch(contents) ==
    LET contents_len == Len(contents) IN
    IF contents_len = 0 THEN Panic
    ELSE IF (contents_len - 1) % 3 = 0
         THEN LET slice_len == (contents_len - 1) \div 3 IN
              [weights1 |-> SubSeq(contents, 1, slice_len),
               weights2 |-> SubSeq(contents, slice_len + 1, 2 * slice_len),
               biases1 |-> SubSeq(contents, 2 * slice_len + 1, 3 * slice_len),
               bias2 |-> contents[contents_len]]
         ELSE Panic

\* NN::load.
load(f) ==
    IF ~FileOpen(f).ok THEN Panic
    ELSE LoadMatch(ReadF64Into(f, LoadBuffer))


\* ------------------------------------------- LearnedFIB::train_subset
\* Datasets are 0-indexed in the code: get(d, i) is data.get(i).
get(d, i) == d[i + 1]
key(d, i) == d[i + 1][1]

\* The inner loop, for i in (l + 1)..(r - 1): TRUE when some interior point
\* is further than threshold from the line a * x + b.
RECURSIVE ErrorExceeds(_, _, _, _, _, _)
ErrorExceeds(d, i, stop, a, b, thr) ==
    IF i >= stop THEN FALSE
    ELSE LET x_i == F(get(d, i)[1])
             y_i == F(get(d, i)[2])
             p == FAdd(FMul(a, x_i), b)
             err == IF FLt(y_i, p) THEN FSub(p, y_i) ELSE FSub(y_i, p)
         IN IF FLt(thr, err) THEN TRUE
            ELSE ErrorExceeds(d, i + 1, stop, a, b, thr)

\* The outer loop, for r in (from + 2)..to, carrying l and boundary.
RECURSIVE ScanBoundary(_, _, _, _, _, _)
ScanBoundary(d, r, stop, l, boundary, thr) ==
    IF r >= stop THEN boundary
    ELSE IF key(d, l) = key(d, r) \/ key(d, l) = key(d, r - 1)
         THEN ScanBoundary(d, r + 1, stop, l, boundary, thr)
         ELSE LET x_l == F(get(d, l)[1])
                  y_l == F(get(d, l)[2])
                  x_r == F(get(d, r)[1])
                  y_r == F(get(d, r)[2])
                  a == FDiv(FSub(y_r, y_l), FSub(x_r, x_l))
                  b == FSub(y_l, FMul(a, x_l))
              IN IF ErrorExceeds(d, l + 1, r - 1, a, b, thr)
                 THEN ScanBoundary(d, r + 1, stop, r - 1,
                                   Append(boundary, get(d, r - 1)), thr)
                 ELSE ScanBoundary(d, r + 1, stop, l, boundary, thr)

\* boundary.last().unwrap(): a panic on the empty Vec.
LastUnwrap(boundary) ==
    IF boundary = <<>> THEN Panic ELSE [some |-> boundary[Len(boundary)]]

\* The tail of train_subset: append the dataset's last point unless its key
\* is the last boundary's.  data.len() - 1 on empty data underflows (a panic,
\* or an out-of-bounds get).
InsertLast(d, boundary) ==
    IF Len(d) = 0 \/ LastUnwrap(boundary) = Panic THEN Panic
    ELSE IF key(d, Len(d) - 1) # LastUnwrap(boundary).some[1]
         THEN [boundary |-> Append(boundary, get(d, Len(d) - 1))]
         ELSE [boundary |-> boundary]

\* train_subset: Panic, or the breakpoints handed to nn.train and the NN.
train_subset(d, f, t, self, thr) ==
    LET last == InsertLast(d, ScanBoundary(d, f + 2, t, f, <<>>, F(thr))) IN
    IF last = Panic THEN Panic
    ELSE LET r == train(self, last.boundary) IN
         IF r = Panic THEN Panic ELSE [boundary |-> last.boundary, nn |-> r]


\* ------------------------------------------------------------- LearnedFIB
RECURSIVE Pow2(_)
Pow2(k) == IF k = 0 THEN 1 ELSE 2 * Pow2(k - 1)

\* An index past the end of a Vec.
IndexPanic == [tag |-> "panic", why |-> "index out of bounds"]

\* clip: mask = (1 << prefix) - 1; (inp & mask) >> prefix.
clip(inp, p) ==
    LET mask == Pow2(p) - 1
        masked == inp % (mask + 1)
    IN masked \div Pow2(p)

\* The allocation loop of new, `for _ in 1..(1 << prefix)`: its pushes.
AllocCount(p) == Cardinality(1..(Pow2(p) - 1))

\* Indexing neural_networks (0-based).
NNAt(nns, i) == IF i < Len(nns) THEN nns[i + 1] ELSE IndexPanic

\* The check loop's error without its else branch: (predicted - answer) as
\* u64, which saturates to 0 when the prediction is below the answer.
CheckErrOneSided(predicted, answer) ==
    IF FLt(answer, predicted) THEN FToU64(FSub(predicted, answer)) ELSE 0

\* The error of one datum in new's check loop, as u64.
CheckErr(predicted, answer) ==
    IF FLt(answer, predicted)
    THEN FToU64(FSub(predicted, answer))
    ELSE FToU64(FSub(answer, predicted))

\* `if err > max_error { max_error = err; }`
UpdateMaxError(max, err) == IF err > max THEN err ELSE max

\* Model::predict_to_float for LearnedFIB.
predict_to_float(nns, p, inp) ==
    LET nn_idx == clip(inp, p) IN
    IF NNAt(nns, nn_idx) = IndexPanic THEN IndexPanic
    ELSE inference(NNAt(nns, nn_idx), F(inp))

\* Model::predict_to_int: f64::max(0.0, floor) as u64.
predict_to_int(nns, p, inp) ==
    LET v == predict_to_float(nns, p, inp) IN
    IF v = IndexPanic THEN IndexPanic
    ELSE IF FFloor(v) < 0 THEN 0 ELSE FFloor(v)

\* LearnedFIB::save: for i in 0..(1 << prefix), create the file, then the
\* i-th corrector's save with `?`.
RECURSIVE SaveLoop(_, _, _)
SaveLoop(nns, i, stop) ==
    IF i >= stop THEN [tag |-> "ok"]
    ELSE IF NNAt(nns, i) = IndexPanic THEN IndexPanic
    ELSE IF ~save(NNAt(nns, i), FileCreate([exists |-> FALSE, records |-> <<>>])).ok
         THEN [tag |-> "err"]
         ELSE SaveLoop(nns, i + 1, stop)

FIBsave(nns, p) == SaveLoop(nns, 0, Pow2(p))


\* ------------------------------------------------------------ radix family
\* A u64 is the set of its one-bits, bit 0 the least significant.
U64Bits == 64
U8Modulus == 256
BitIdx == 0..(U64Bits - 1)

ShlBits(x, s) == {b + s : b \in x} \cap BitIdx
ShrBits(x, s) == {b - s : b \in x} \cap BitIdx

\* x << s and x >> s on u64: a shift of 64 or more panics when overflow
\* checks are on, and otherwise shifts by s mod 64.
\* Operands and results are [bits |-> ...] (a u64), [u8 |-> ...] or Panic.
U64(x) == [bits |-> x]
U8(n) == [u8 |-> n]

Shl(x, s, checks) ==
    IF x = Panic \/ s = Panic THEN Panic
    ELSE IF s.u8 >= U64Bits
         THEN (IF checks THEN Panic ELSE U64(ShlBits(x.bits, s.u8 % U64Bits)))
    ELSE U64(ShlBits(x.bits, s.u8))

Shr(x, s, checks) ==
    IF x = Panic \/ s = Panic THEN Panic
    ELSE IF s.u8 >= U64Bits
         THEN (IF checks THEN Panic ELSE U64(ShrBits(x.bits, s.u8 % U64Bits)))
    ELSE U64(ShrBits(x.bits, s.u8))

\* a - b on u8: an underflow panics when overflow checks are on and
\* otherwise wraps.
SubU8(a, b, checks) ==
    IF a >= b THEN U8(a - b)
    ELSE IF checks THEN Panic ELSE U8(U8Modulus + a - b)

MaxNat(S) == CHOOSE m \in S : \A n \in S : n <= m

\* Numeric order on u64.
ULt(a, b) == a # b /\ MaxNat((a \ b) \cup (b \ a)) \in b

\* The value of a u64 below 2^31 as a number.
RECURSIVE ToNat(_)
ToNat(x) ==
    IF x = {} THEN 0
    ELSE LET b == CHOOSE c \in x : TRUE IN Pow2(b) + ToNat(x \ {b})

\* x < 2^k on u64.
Below(x, k) == \A b \in x : b < k

\* utils::num_bits: the bit length of the largest position.
RECURSIVE num_bits(_)
num_bits(v) == IF v = 0 THEN 0 ELSE 1 + num_bits(v \div 2)

\* utils::common_prefix_size: how many leading bits all keys share.
common_prefix_size(d) ==
    LET differing == {b \in BitIdx : \E i, j \in 1..Len(d) :
                                       (b \in d[i][1]) # (b \in d[j][1])}
    IN IF differing = {} THEN U64Bits ELSE U64Bits - 1 - MaxNat(differing)

\* RadixModel::new: params (common_prefix, bits).
RadixModel_new(d) ==
    IF Len(d) = 0 THEN [params |-> <<0, 0>>]
    ELSE LET largest_value == MaxNat({d[i][2] : i \in 1..Len(d)})
         IN [params |-> <<common_prefix_size(d), num_bits(largest_value)>>]

\* RadixModel::predict_to_int: (as_int << left_shift) >> (64 - num_bits).
Radix_predict_to_int(self, as_int, checks) ==
    Shr(Shl(U64(as_int), U8(self.params[1]), checks),
        SubU8(U64Bits, self.params[2], checks), checks)

\* ((x << prefix) >> prefix) >> (64 - (prefix + bits))
TableRadix(x, pfx, bits, checks) ==
    Shr(Shr(Shl(U64(x), U8(pfx), checks), U8(pfx), checks),
        SubU8(U64Bits, pfx + bits, checks), checks)

\* The scan of RadixTable::new over data[k..], carrying the table (slot i at
\* index i + 1) and last_radix.
RECURSIVE TableScan(_, _, _, _, _, _, _)
TableScan(d, k, pfx, bits, checks, hint_table, last_radix) ==
    IF k > Len(d) THEN [hint_table |-> hint_table, last_radix |-> last_radix]
    ELSE LET y == d[k][2]
             cr == TableRadix(d[k][1], pfx, bits, checks)
         IN IF cr = Panic THEN Panic
            ELSE IF Below(cr.bits, bits) /\ ToNat(cr.bits) = last_radix
                 THEN TableScan(d, k + 1, pfx, bits, checks, hint_table, last_radix)
            ELSE IF ~Below(cr.bits, bits) THEN Panic    \* the assert!
            ELSE LET current_radix == ToNat(cr.bits)
                     filled == [i \in 1..Len(hint_table) |->
                        IF i - 1 = current_radix
                           \/ (last_radix + 1 <= i - 1 /\ i - 1 < current_radix)
                        THEN y ELSE hint_table[i]]
                 IN TableScan(d, k + 1, pfx, bits, checks, filled, current_radix)

\* The trailing fill: slots (last_radix + 1)..len get the table's length.
TrailingFill(hint_table, last_radix) ==
    [i \in 1..Len(hint_table) |->
        IF i - 1 >= last_radix + 1 THEN Len(hint_table) ELSE hint_table[i]]

\* RadixTable::new: Panic, or the table with its two bit counts.
RadixTable_new(d, bits, checks) ==
    LET pfx == common_prefix_size(d)
        zeros == [i \in 1..Pow2(bits) |-> 0]
        scan == TableScan(d, 1, pfx, bits, checks, zeros, 0)
    IN IF scan = Panic THEN Panic
       ELSE [prefix_bits |-> pfx, table_bits |-> bits,
             hint_table |-> TrailingFill(scan.hint_table, scan.last_radix)]

\* RadixTable::predict_to_int: the table entry of the key's bit field.
Table_predict_to_int(t, as_int, checks) ==
    LET res == TableRadix(as_int, t.prefix_bits, t.table_bits, checks) IN
    IF res = Panic THEN Panic
    ELSE IF ~Below(res.bits, t.table_bits) THEN IndexPanic
    ELSE [idx |-> t.hint_table[ToNat(res.bits) + 1]]

\* ------------------------------------------------------------ input sets
RECURSIVE SeqsOfLen(_, _)
SeqsOfLen(S, n) ==
    IF n = 0 THEN {<<>>}
    ELSE {Append(s, x) : s \in SeqsOfLen(S, n - 1), x \in S}

SeqsUpTo(S, n) == UNION {SeqsOfLen(S, k) : k \in 0..n}

\* The non-decreasing sequences of length n over 0..hi.
RECURSIVE NonDecreasing(_, _)
NonDecreasing(hi, n) ==
    IF n = 0 THEN {<<>>}
    ELSE UNION {{Append(s, x) : x \in (IF s = <<>> THEN 0 ELSE s[Len(s)])..hi} :
                  s \in NonDecreasing(hi, n - 1)}

Points == (0..MaxKey) \X (0..MaxPos)

\* Breakpoints: strictly increasing keys, non-decreasing positions.
RECURSIVE BreakpointsOfLen(_)
BreakpointsOfLen(n) ==
    IF n = 0 THEN {<<>>}
    ELSE UNION {{Append(s, q) :
                   q \in {p \in Points :
                            s # <<>> => /\ s[Len(s)][1] < p[1]
                                        /\ s[Len(s)][2] <= p[2]}} :
                  s \in BreakpointsOfLen(n - 1)}

BreakpointSeqs == UNION {BreakpointsOfLen(n) : n \in 2..MaxBreakpoints}

FileContents == SeqsUpTo({F(0), F(1)}, MaxRecords)

\* Sorted datasets: non-decreasing keys (duplicates allowed), position = rank.
Datasets ==
    {[i \in 1..Len(ks) |-> <<ks[i], i - 1>>] :
        ks \in UNION {NonDecreasing(MaxKey, n) : n \in 0..MaxLen}}

\* Keys of the radix family: every combination of the three top bits.
RadixKeyBits == {U64Bits - 1, U64Bits - 2, U64Bits - 3}
RadixKeys == SUBSET RadixKeyBits

\* Datasets of the radix family: keys sorted, positions non-decreasing.
RECURSIVE RadixDataOfLen(_)
RadixDataOfLen(n) ==
    IF n = 0 THEN {<<>>}
    ELSE UNION {{Append(s, q) :
                   q \in {p \in RadixKeys \X (0..MaxRadixPos) :
                            s # <<>> =>
                                /\ (s[Len(s)][1] = p[1] \/ ULt(s[Len(s)][1], p[1]))
                                /\ s[Len(s)][2] <= p[2]}} :
                  s \in RadixDataOfLen(n - 1)}

RadixDatasets == UNION {RadixDataOfLen(n) : n \in 0..MaxRadixLen}

\* ------------------------------------------------- idle parts of the state
NNIdle ==
    /\ nn = NNnew /\ nn_state = "new" /\ train_set = <<>>
    /\ inf_in = -1 /\ inf_out = None
    /\ file = [exists |-> FALSE, records |-> <<>>]
    /\ save_result = "none" /\ loaded = None

SegIdle ==
    /\ seg_data = <<>> /\ seg_from = 0 /\ seg_to = 0
    /\ seg_threshold = 0 /\ seg_result = None

FIBIdle ==
    /\ data = <<>> /\ prefix = 0 /\ threshold = 0
    /\ neural_networks = <<>> /\ pc = "idle" /\ idx = 0
    /\ prev_prefix = 0 /\ from = 0 /\ to = 0 /\ max_error = 0
    /\ calls = <<>> /\ fib_out = None

RadixIdle ==
    /\ rdata = <<>> /\ tbits = 0 /\ overflow_checks = TRUE
    /\ rmodel = None /\ rtable = None /\ rpred = None

\* =================================================== the Piecewise Corrector
InitNN ==
    /\ nn = NNnew /\ nn_state = "new" /\ train_set = <<>>
    /\ inf_in = -1 /\ inf_out = None
    /\ \E e \in BOOLEAN, c \in FileContents :
          /\ (~e => c = <<>>)
          /\ file = [exists |-> e, records |-> c]
    /\ save_result = "none" /\ loaded = None
    /\ SegIdle /\ FIBIdle /\ RadixIdle

\* nn.train(breakpoints) on a fresh NN.
NNTrain ==
    /\ nn_state = "new"
    /\ \E ds \in BreakpointSeqs :
          LET r == train(nn, ds) IN
          /\ train_set' = ds
          /\ nn' = IF r = Panic THEN nn ELSE r
          /\ nn_state' = IF r = Panic THEN "panic" ELSE "trained"
    /\ UNCHANGED <<inf_in, inf_out, file, save_result, loaded>>
    /\ UNCHANGED <<segVars, fibVars, radixVars>>

\* nn.inference(x) at any key.
NNInference ==
    /\ nn_state = "trained"
    /\ \E x \in 0..MaxKey :
          /\ inf_in' = x
          /\ inf_out' = inference(nn, F(x))
    /\ UNCHANGED <<nn, nn_state, train_set, file, save_result, loaded>>
    /\ UNCHANGED <<segVars, fibVars, radixVars>>

\* fs::File::create(&file_name) of LearnedFIB::save, before the NN's save.
NNFileCreate ==
    /\ save_result = "none" /\ loaded = None
    /\ file' = FileCreate(file)
    /\ file' # file
    /\ UNCHANGED <<nn, nn_state, train_set, inf_in, inf_out, save_result, loaded>>
    /\ UNCHANGED <<segVars, fibVars, radixVars>>

\* nn.save(path).
NNSave ==
    /\ save_result = "none" /\ loaded = None
    /\ nn_state # "panic"
    /\ LET r == save(nn, file) IN
          /\ file' = r.file
          /\ save_result' = IF r.ok THEN "ok" ELSE "err"
    /\ UNCHANGED <<nn, nn_state, train_set, inf_in, inf_out, loaded>>
    /\ UNCHANGED <<segVars, fibVars, radixVars>>

\* nn.load(path).
NNLoad ==
    /\ loaded = None
    /\ loaded' = load(file)
    /\ UNCHANGED <<nn, nn_state, train_set, inf_in, inf_out, file, save_result>>
    /\ UNCHANGED <<segVars, fibVars, radixVars>>

NextNN == NNTrain \/ NNInference \/ NNFileCreate \/ NNSave \/ NNLoad

SpecNN == InitNN /\ [][NextNN]_vars

\* ------------------------------------------------------------ properties: NN
\* The corrector that n records lay out as [w1][w2][b1][bias2].
LoadExpected(records) ==
    LET n == Len(records)
        k == (n - 1) \div 3
    IN [weights1 |-> SubSeq(records, 1, k),
        weights2 |-> SubSeq(records, k + 1, 2 * k),
        biases1 |-> SubSeq(records, 2 * k + 1, 3 * k),
        bias2 |-> records[n]]

\* C1: after train on a fresh NN over at least 2 breakpoints with strictly
\* increasing keys, inference at the key of each breakpoint, the last one
\* included, returns exactly that breakpoint's position.
C1_InterpolatesBreakpoints ==
    (nn_state = "trained" /\ inf_in # -1) =>
        \A i \in 1..Len(train_set) :
            train_set[i][1] = inf_in => inf_out = F(train_set[i][2])

\* C3: save to a file followed by load of that file succeeds and yields a
\* corrector with the same four parameter groups, element for element.
C3_SaveLoadRoundTrip ==
    (nn_state = "trained" /\ file.exists /\ save_result # "none" /\ loaded # None) =>
        (save_result = "ok" /\ loaded = nn)

\* C8: load of a file of n records fails when (n - 1) mod 3 # 0 and otherwise
\* returns the corrector laid out as [w1][w2][b1][bias2], each array of
\* length (n - 1) / 3.
C8_LoadLayout ==
    (loaded # None /\ file.exists) =>
        LET n == Len(file.records) IN
        IF n >= 1 /\ (n - 1) % 3 = 0
        THEN loaded = LoadExpected(file.records)
        ELSE loaded = Panic

\* =================================================== the Segmentation Trainer
InitSeg ==
    /\ \E d \in Datasets : \E f \in 0..Len(d) : \E t \in f..Len(d) :
          /\ Len(d) >= 1
          /\ seg_data = d /\ seg_from = f /\ seg_to = t
    /\ seg_threshold \in 0..MaxThreshold
    /\ seg_result = None
    /\ NNIdle /\ FIBIdle /\ RadixIdle

\* LearnedFIB::train_subset(data, from, to, &mut NN::new(), threshold).
SegTrainSubset ==
    /\ seg_result = None
    /\ seg_result' = train_subset(seg_data, seg_from, seg_to, NNnew, seg_threshold)
    /\ UNCHANGED <<seg_data, seg_from, seg_to, seg_threshold>>
    /\ UNCHANGED <<nnVars, fibVars, radixVars>>

NextSeg == SegTrainSubset

SpecSeg == InitSeg /\ [][NextSeg]_vars

\* A bucket that is the whole dataset, key i at position i.
OnOneLine(d) == \A i \in 1..Len(d) : d[i] = <<i - 1, i - 1>>

\* C7: for a bucket of at least 3 points on one line (key i at position i)
\* and any non-negative threshold, train_subset completes and hands the
\* corrector exactly two breakpoints: the first point and the last point.
C7_OneLineTwoBreakpoints ==
    (/\ seg_result # None
     /\ Len(seg_data) >= 3 /\ OnOneLine(seg_data)
     /\ seg_from = 0 /\ seg_to = Len(seg_data)) =>
        /\ seg_result # Panic
        /\ seg_result.boundary = <<seg_data[1], seg_data[Len(seg_data)]>>

\* ============================================ the Prefix Bucket Dispatcher
InitFIB ==
    /\ data \in Datasets
    /\ prefix \in 0..MaxPrefix
    /\ threshold \in 0..MaxThreshold
    /\ neural_networks = <<>> /\ pc = "start" /\ idx = 0
    /\ prev_prefix = 0 /\ from = 0 /\ to = 0 /\ max_error = 0
    /\ calls = <<>> /\ fib_out = None
    /\ NNIdle /\ SegIdle /\ RadixIdle

\* new, lines 33-41: allocate the correctors, initialise the training scan.
FIBAlloc ==
    /\ pc = "start"
    /\ neural_networks' = [i \in 1..AllocCount(prefix) |-> NNnew]
    /\ prev_prefix' = 0 /\ from' = 0 /\ to' = 0 /\ idx' = 0
    /\ pc' = "train"
    /\ UNCHANGED <<data, prefix, threshold, max_error, calls, fib_out>>
    /\ UNCHANGED <<nnVars, segVars, radixVars>>

\* new, lines 42-58: one iteration of the training loop.
FIBTrainStep ==
    /\ pc = "train" /\ idx < Len(data)
    /\ LET cur_prefix == clip(key(data, idx), prefix) IN
       IF prev_prefix # cur_prefix
       THEN LET target == NNAt(neural_networks, cur_prefix)
                r == IF target = IndexPanic THEN IndexPanic
                     ELSE train_subset(data, from, to, target, threshold)
            IN IF r \in {Panic, IndexPanic}
               THEN /\ pc' = "panic" /\ fib_out' = r
                    /\ UNCHANGED <<neural_networks, calls, prev_prefix, from, to, idx>>
               ELSE /\ neural_networks' =
                          [neural_networks EXCEPT ![cur_prefix + 1] = r.nn]
                    /\ calls' = Append(calls, <<from, to, cur_prefix>>)
                    /\ prev_prefix' = cur_prefix
                    /\ from' = to + 1
                    /\ to' = to + 1
                    /\ idx' = idx + 1
                    /\ UNCHANGED <<pc, fib_out>>
       ELSE /\ to' = to + 1
            /\ idx' = idx + 1
            /\ UNCHANGED <<neural_networks, calls, prev_prefix, from, pc, fib_out>>
    /\ UNCHANGED <<data, prefix, threshold, max_error>>
    /\ UNCHANGED <<nnVars, segVars, radixVars>>

\* new, lines 58-61: the training loop ends, the check loop starts.
FIBTrainEnd ==
    /\ pc = "train" /\ idx = Len(data)
    /\ pc' = "check" /\ idx' = 0 /\ max_error' = 0
    /\ UNCHANGED <<data, prefix, threshold, neural_networks,
                   prev_prefix, from, to, calls, fib_out>>
    /\ UNCHANGED <<nnVars, segVars, radixVars>>

\* new, lines 62-75: one iteration of the check loop.
FIBCheckStep ==
    /\ pc = "check" /\ idx < Len(data)
    /\ LET answer == F(get(data, idx)[2])
           predicted == predict_to_float(neural_networks, prefix, key(data, idx))
       IN IF predicted = IndexPanic
          THEN /\ pc' = "panic" /\ fib_out' = IndexPanic
               /\ UNCHANGED <<max_error, idx>>
          ELSE /\ max_error' = UpdateMaxError(max_error, CheckErr(predicted, answer))
               /\ idx' = idx + 1
               /\ UNCHANGED <<pc, fib_out>>
    /\ UNCHANGED <<data, prefix, threshold, neural_networks,
                   prev_prefix, from, to, calls>>
    /\ UNCHANGED <<nnVars, segVars, radixVars>>

\* new, lines 77-82: return the LearnedFIB.
FIBReturn ==
    /\ pc = "check" /\ idx = Len(data)
    /\ pc' = "done"
    /\ UNCHANGED <<data, prefix, threshold, neural_networks, idx,
                   prev_prefix, from, to, max_error, calls, fib_out>>
    /\ UNCHANGED <<nnVars, segVars, radixVars>>

\* predict_to_float / predict_to_int on the built model.
FIBPredict ==
    /\ pc = "done"
    /\ \E k \in 0..MaxKey :
          fib_out' = [tag |-> "predict", key |-> k,
                      float |-> predict_to_float(neural_networks, prefix, k),
                      int |-> predict_to_int(neural_networks, prefix, k)]
    /\ UNCHANGED <<data, prefix, threshold, neural_networks, pc, idx,
                   prev_prefix, from, to, max_error, calls>>
    /\ UNCHANGED <<nnVars, segVars, radixVars>>

\* save on the built model.
FIBSave ==
    /\ pc = "done"
    /\ fib_out' = [tag |-> "save", result |-> FIBsave(neural_networks, prefix)]
    /\ UNCHANGED <<data, prefix, threshold, neural_networks, pc, idx,
                   prev_prefix, from, to, max_error, calls>>
    /\ UNCHANGED <<nnVars, segVars, radixVars>>

NextFIB ==
    \/ FIBAlloc \/ FIBTrainStep \/ FIBTrainEnd \/ FIBCheckStep
    \/ FIBReturn \/ FIBPredict \/ FIBSave

SpecFIB == InitFIB /\ [][NextFIB]_vars

\* ----------------------------------------------------------- properties: FIB
RECURSIVE MaxOf(_)
MaxOf(S) ==
    IF S = {} THEN F(0)
    ELSE LET x == CHOOSE y \in S : TRUE
             m == MaxOf(S \ {x})
         IN IF FLt(m, x) THEN x ELSE m

\* The largest |prediction - position| over the training set, by brute force.
BruteForceError ==
    MaxOf({FAbs(FSub(predict_to_float(neural_networks, prefix, data[i][1]),
                     F(data[i][2]))) : i \in 1..Len(data)})

\* C2: whenever new completes, the reported error bound equals the largest
\* absolute difference between the model's own prediction and the position
\* over all (key, position) pairs of the training set.
C2_ErrorBoundIsMaxError == (pc = "done") => F(max_error) = BruteForceError

\* C2 happens: new completed over at least two entries with a non-zero bound.
C2_Witness == pc = "done" /\ Len(data) >= 2 /\ max_error >= 1 /\ prefix >= 1

\* The maximal runs [s, e) of equal bucket index, with their bucket.
Runs ==
    {r \in (0..Len(data)) \X (0..Len(data)) \X (0..(Pow2(prefix) - 1)) :
        /\ r[1] < r[2]
        /\ \A i \in r[1]..(r[2] - 1) : clip(key(data, i), prefix) = r[3]
        /\ (r[1] > 0 => clip(key(data, r[1] - 1), prefix) # r[3])
        /\ (r[2] < Len(data) => clip(key(data, r[2]), prefix) # r[3])}

\* C9: when new has run, train_subset was called exactly once for every
\* maximal run [s, e) of equal bucket index b, with from = s, to = e and
\* bucket b's corrector.
C9_OneTrainingPerRun ==
    (pc = "done") =>
        /\ Len(calls) = Cardinality(Runs)
        /\ {calls[i] : i \in 1..Len(calls)} = Runs

\* C10: new allocates exactly 2^prefix correctors, and no bucket index used
\* in training, prediction or save is out of range.
C10_AllBucketsAllocated ==
    (pc \notin {"idle", "start"}) =>
        /\ Len(neural_networks) = Pow2(prefix)
        /\ fib_out # IndexPanic
        /\ (fib_out.tag = "predict" => fib_out.float # IndexPanic)
        /\ (fib_out.tag = "save" => fib_out.result # IndexPanic)

\* ========================================================== the radix family
InitRadix ==
    /\ rdata \in RadixDatasets
    /\ tbits \in 0..MaxTableBits
    /\ overflow_checks \in BOOLEAN
    /\ rmodel = None /\ rtable = None /\ rpred = None
    /\ NNIdle /\ SegIdle /\ FIBIdle

\* RadixModel::new(data).
RadixModelNew ==
    /\ rmodel = None
    /\ rmodel' = RadixModel_new(rdata)
    /\ UNCHANGED <<rdata, tbits, overflow_checks, rtable, rpred>>
    /\ UNCHANGED <<nnVars, segVars, fibVars>>

\* RadixModel::predict_to_int on a key of the dataset.
RadixModelPredict ==
    /\ rmodel # None
    /\ \E i \in 1..Len(rdata) :
          rpred' = [tag |-> "radix", key |-> rdata[i][1],
                    res |-> Radix_predict_to_int(rmodel, rdata[i][1], overflow_checks)]
    /\ UNCHANGED <<rdata, tbits, overflow_checks, rmodel, rtable>>
    /\ UNCHANGED <<nnVars, segVars, fibVars>>

\* RadixTable::new(data, bits).
RadixTableNew ==
    /\ rtable = None
    /\ rtable' = RadixTable_new(rdata, tbits, overflow_checks)
    /\ UNCHANGED <<rdata, tbits, overflow_checks, rmodel, rpred>>
    /\ UNCHANGED <<nnVars, segVars, fibVars>>

\* RadixTable::predict_to_int on a key of the dataset.
RadixTablePredict ==
    /\ rtable \notin {None, Panic}
    /\ \E i \in 1..Len(rdata) :
          rpred' = [tag |-> "table", key |-> rdata[i][1],
                    res |-> Table_predict_to_int(rtable, rdata[i][1], overflow_checks)]
    /\ UNCHANGED <<rdata, tbits, overflow_checks, rmodel, rtable>>
    /\ UNCHANGED <<nnVars, segVars, fibVars>>

NextRadix ==
    RadixModelNew \/ RadixModelPredict \/ RadixTableNew \/ RadixTablePredict

SpecRadix == InitRadix /\ [][NextRadix]_vars

\* -------------------------------------------------------- properties: radix
\* C4: predict_to_int of the RadixModel built from a dataset returns, on
\* every key of that dataset and without shift overflow, a value in
\* [0, 2^bits), bits being the model's second parameter.
C4_RadixInRange ==
    (rpred.tag = "radix") =>
        /\ rpred.res # Panic
        /\ Below(rpred.res.bits, rmodel.params[2])

\* new built a table, and none of its shifts or subtractions overflowed: the
\* keys are not all equal and the bit field lies inside the key.
TableBuilt ==
    /\ rtable \notin {None, Panic}
    /\ common_prefix_size(rdata) < U64Bits
    /\ tbits >= 1
    /\ common_prefix_size(rdata) + tbits <= U64Bits

\* C5: the hint table is non-decreasing across increasing slot index, the
\* trailing slots that hold the table length included.
C5_HintTableMonotone ==
    TableBuilt =>
        \A i, j \in 1..Len(rtable.hint_table) :
            i < j => rtable.hint_table[i] <= rtable.hint_table[j]

\* The bit field of a key, computed on the key's bits directly: the
\* table_bits bits that follow the common prefix.
BitField(x, pfx, bits) ==
    ToNat({b - (U64Bits - pfx - bits) :
             b \in {c \in x : c < U64Bits - pfx /\ c >= U64Bits - pfx - bits}})

\* C6: for every bit-field value v that occurs in the dataset, v = 0
\* included, hint_table[v] is the position of the first entry with value v.
C6_FirstOccurrence ==
    TableBuilt =>
        \A i \in 1..Len(rdata) :
            LET v == BitField(rdata[i][1], common_prefix_size(rdata), tbits) IN
            (\A k \in 1..(i - 1) :
                BitField(rdata[k][1], common_prefix_size(rdata), tbits) # v)
            => rtable.hint_table[v + 1] = rdata[i][2]

====
